---- MODULE Spec2Model ----
(***************************************************************************)
(* A model of ferropass: the encrypted-storage envelope                    *)
(* (src/src/encryption.rs), the record store (src/src/models.rs) and the   *)
(* interactive session that drives them (src/src/cli.rs).                  *)
(*                                                                         *)
(* Text is a sequence of one-character strings.  Binary data is a sequence *)
(* of bytes 0..255.  Base64 text is a sequence of symbol numbers: 0..63    *)
(* are the alphabet A-Za-z0-9+/ in order, PadSym is '=', and BadSym is a   *)
(* character outside the alphabet.                                         *)
(*                                                                         *)
(* Cryptographic assumptions (the crates are not part of the repository):  *)
(*  - Argon2 is injective in (passkey, salt): a key is the pair itself.    *)
(*  - AES-256-GCM is an ideal AEAD: a ciphertext decrypts under a key and  *)
(*    a nonce iff it is, byte for byte, what encrypt returned for that key *)
(*    and nonce.  The variable aead is the encryption relation built so    *)
(*    far.                                                                 *)
(*  - OsRng never repeats an output: draw number n yields bytes that       *)
(*    encode n.                                                            *)
(*                                                                         *)
(* Five specifications share the variables: SpecEnvelope (seal, open and   *)
(* tamper on one file), SpecStore (create, update, remove and find on one  *)
(* Database), SpecPassword (is_password_valid and generate_random_password *)
(* of src/src/password.rs), Spec (a session of the program: each handler   *)
(* of cli.rs is one action, from its first prompt to its return to a menu) *)
(* and SpecConc (two sessions on one file; a handler is one step there     *)
(* too, so a write ends before another session reads the file).  In the    *)
(* sessions the terminal never fails (prompt_input and prompt_password     *)
(* return Ok), and nothing but the sessions writes the files.              *)
(***************************************************************************)
EXTENDS Integers, Sequences, FiniteSets, TLC

\* ---------------------------------------------------------------- bounds

\* Seals (encrypt_and_save_database calls) in one behaviour of SpecEnvelope.
MaxSeals == 2

\* Accounts in the store of SpecStore.
MaxAccounts == 2

\* Seals one session makes in Spec.
MaxSessionSeals == 1

\* Texts typed as passwords have at most MaxPasswordLen characters.
MaxPasswordLen == 20

\* ------------------------------------------------------ program constants

NonceLen == 12
SaltLen == 16
TagLen == 16
IdLen == 8
MinPasswordLen == 15
GeneratedFill == 16
MinSaltChars == 4
MaxSaltChars == 64
MinArgonSalt == 8

PadSym == 64
BadSym == 65

\* ------------------------------------------------------------- sequences

Rep(x, n) == [i \in 1..n |-> x]

RECURSIVE Concat(_)
Concat(ss) == IF ss = <<>> THEN <<>> ELSE Head(ss) \o Concat(Tail(ss))

RemoveAt(s, pos) == SubSeq(s, 1, pos - 1) \o SubSeq(s, pos + 1, Len(s))

\* Is lit the part of s that starts at position i?
Match(s, i, lit) ==
    /\ i + Len(lit) - 1 <= Len(s)
    /\ SubSeq(s, i, i + Len(lit) - 1) = lit

\* ---------------------------------------------------------------- base64

\* general_purpose::STANDARD.encode: three bytes to four symbols, '=' padded.
\* Symbol k of the encoding of the n bytes.
B64Sym(bytes, n, k) ==
    LET g == (k - 1) \div 4
        r == (k - 1) % 4
        b1 == bytes[3 * g + 1]
        b2 == IF 3 * g + 2 <= n THEN bytes[3 * g + 2] ELSE 0
        b3 == IF 3 * g + 3 <= n THEN bytes[3 * g + 3] ELSE 0
    IN  IF r = 0 THEN b1 \div 4
        ELSE IF r = 1 THEN (b1 % 4) * 16 + b2 \div 16
        ELSE IF r = 2 THEN (IF 3 * g + 2 <= n THEN (b2 % 16) * 4 + b3 \div 64 ELSE PadSym)
        ELSE (IF 3 * g + 3 <= n THEN b3 % 64 ELSE PadSym)

B64Encode(bytes) ==
    LET n == Len(bytes)
    IN  [k \in 1..(4 * ((n + 2) \div 3)) |-> B64Sym(bytes, n, k)]

\* The number of padding symbols at the end of base64 text (at most two count).
B64Pad(s) ==
    IF Len(s) >= 1 /\ s[Len(s)] = PadSym
    THEN (IF Len(s) >= 2 /\ s[Len(s) - 1] = PadSym THEN 2 ELSE 1)
    ELSE 0

\* general_purpose::STANDARD.decode accepts canonical, padded base64 only: a
\* multiple of four symbols, every symbol of the alphabet, padding at the end
\* alone, and the unused low bits of the last symbol zero.
B64Valid(s) ==
    LET p == B64Pad(s)
        n == Len(s) - p
    IN  /\ Len(s) % 4 = 0
        /\ \A i \in 1..n : s[i] \in 0..63
        /\ p = 1 => s[n] % 4 = 0
        /\ p = 2 => s[n] % 16 = 0

B64Byte(s, k) ==
    LET g == (k - 1) \div 3
        r == (k - 1) % 3
        C(j) == s[4 * g + j]
    IN  CASE r = 0 -> C(1) * 4 + C(2) \div 16
          [] r = 1 -> (C(2) % 16) * 16 + C(3) \div 4
          [] r = 2 -> (C(3) % 4) * 64 + C(4)

B64Decode(s) == [k \in 1..(3 * (Len(s) \div 4) - B64Pad(s)) |-> B64Byte(s, k)]

\* SaltString::generate encodes without padding (password-hash's B64).
B64EncodeNoPad(bytes) ==
    LET e == B64Encode(bytes) IN SubSeq(e, 1, Len(e) - B64Pad(e))

\* ----------------------------------------------------------- record store

\* Option<String>: None, or Some(s).
None == [some |-> FALSE, val |-> <<>>]

Some(s) == [some |-> TRUE, val |-> s]

\* struct Account.
MkAccount(id, username_or_email, description, password) ==
    [id |-> id, username_or_email |-> username_or_email,
     description |-> description, password |-> password]

\* struct Database; Database::new() is the store with no accounts.
MkDatabase(accounts) == [accounts |-> accounts]

NewDatabase == MkDatabase(<<>>)

\* ------------------------------------------------------------------ JSON

Q == "\""

BS == "\\"

\* serde_json writes a string between quotes, with '"' and '\' escaped by a '\'.
JsonEscape(c) == IF c = Q THEN <<BS, Q>> ELSE IF c = BS THEN <<BS, BS>> ELSE <<c>>

JsonString(s) == <<Q>> \o Concat([i \in 1..Len(s) |-> JsonEscape(s[i])]) \o <<Q>>

JsonNull == <<"n", "u", "l", "l">>

KeyAccounts == <<"{", Q, "a", "c", "c", "o", "u", "n", "t", "s", Q, ":", "[">>

KeyId == <<"{", Q, "i", "d", Q, ":">>

KeyUsername == <<",", Q, "u", "s", "e", "r", "n", "a", "m", "e", "_", "o", "r", "_", "e", "m", "a", "i", "l", Q, ":">>

KeyDescription == <<",", Q, "d", "e", "s", "c", "r", "i", "p", "t", "i", "o", "n", Q, ":">>

KeyPassword == <<",", Q, "p", "a", "s", "s", "w", "o", "r", "d", Q, ":">>

\* None written as the empty string.
JsonOptionEmpty(o) == IF o.some THEN JsonString(o.val) ELSE JsonString(<<>>)

\* Option<String> serializes as null or as the string.
JsonOption(o) == IF o.some THEN JsonString(o.val) ELSE JsonNull

\* #[derive(Serialize)] on Account: the fields in declaration order.
AccountToJson(a) ==
    KeyId \o JsonString(a.id) \o KeyUsername \o JsonString(a.username_or_email)
        \o KeyDescription \o JsonOption(a.description)
        \o KeyPassword \o JsonString(a.password) \o <<"}">>

\* serde_json::to_string(database).
ToJson(db) ==
    LET n == Len(db.accounts)
    IN  KeyAccounts
            \o Concat([i \in 1..n |->
                   (IF i > 1 THEN <<",">> ELSE <<>>) \o AccountToJson(db.accounts[i])])
            \o <<"]", "}">>

ParseFail == [ok |-> FALSE, val |-> <<>>, next |-> 0]

ParseOk(v, next) == [ok |-> TRUE, val |-> v, next |-> next]

\* The characters of a JSON string after its opening quote, up to the closing one.
RECURSIVE ParseStringBody(_, _, _)
ParseStringBody(s, i, acc) ==
    IF i > Len(s) THEN ParseFail
    ELSE IF s[i] = Q THEN ParseOk(acc, i + 1)
    ELSE IF s[i] = BS
         THEN (IF i + 1 <= Len(s) /\ s[i + 1] \in {Q, BS}
               THEN ParseStringBody(s, i + 2, Append(acc, s[i + 1]))
               ELSE ParseFail)
    ELSE ParseStringBody(s, i + 1, Append(acc, s[i]))

\* A value parsed (r) as the Some of an Option.
ParseSome(r) == IF r.ok THEN ParseOk(Some(r.val), r.next) ELSE ParseFail

\* A value parsed (r) appended to the values parsed so far (p).
ParseNext(p, r) == IF r.ok THEN ParseOk(Append(p.val, r.val), r.next) ELSE ParseFail

ParseString(s, i) ==
    IF i <= Len(s) /\ s[i] = Q THEN ParseStringBody(s, i + 1, <<>>) ELSE ParseFail

ParseOption(s, i) ==
    IF Match(s, i, JsonNull) THEN ParseOk(None, i + Len(JsonNull))
    ELSE ParseSome(ParseString(s, i))

\* One field of an Account after the fields parsed so far (p): its key, then
\* its value, an Option<String> or a String.
ParseField(s, p, key, optional) ==
    IF ~p.ok \/ ~Match(s, p.next, key) THEN ParseFail
    ELSE ParseNext(p, IF optional THEN ParseOption(s, p.next + Len(key))
                      ELSE ParseString(s, p.next + Len(key)))

\* The closing brace after the four fields, and the Account they make.
ParseClose(s, p) ==
    IF ~p.ok \/ ~Match(s, p.next, <<"}">>) THEN ParseFail
    ELSE ParseOk(MkAccount(p.val[1], p.val[2], p.val[3], p.val[4]), p.next + 1)

\* #[derive(Deserialize)] on Account, for the text AccountToJson writes (serde
\* also accepts white space, another field order and unknown fields, which the
\* program never writes).
ParseAccount(s, i) ==
    ParseClose(s,
        ParseField(s,
            ParseField(s,
                ParseField(s,
                    ParseField(s, ParseOk(<<>>, i), KeyId, FALSE),
                    KeyUsername, FALSE),
                KeyDescription, TRUE),
            KeyPassword, FALSE))

\* The elements of the accounts array, from position i, after acc.
RECURSIVE ParseAccounts(_, _, _)
ParseElement(s, a, acc) ==
    IF ~a.ok THEN ParseFail
    ELSE IF Match(s, a.next, <<",">>)
         THEN ParseAccounts(s, a.next + 1, Append(acc, a.val))
    ELSE ParseOk(Append(acc, a.val), a.next)

ParseAccounts(s, i, acc) == ParseElement(s, ParseAccount(s, i), acc)

\* The end of the accounts array and of the Database object.
ParseEnd(s, r) ==
    IF r.ok /\ Match(s, r.next, <<"]", "}">>) /\ r.next + 1 = Len(s)
    THEN ParseOk(MkDatabase(r.val), r.next + 2)
    ELSE ParseFail

\* serde_json::from_slice::<Database>(plaintext): ok with the store, or not ok.
FromJson(s) ==
    IF ~Match(s, 1, KeyAccounts) THEN ParseFail
    ELSE IF Match(s, 1 + Len(KeyAccounts), <<"]">>)
    THEN ParseEnd(s, ParseOk(<<>>, 1 + Len(KeyAccounts)))
    ELSE ParseEnd(s, ParseAccounts(s, 1 + Len(KeyAccounts), <<>>))

\* ----------------------------------------------------------------- files

\* What a path holds: nothing, text that is not an EncryptedData object, or the
\* JSON object {"nonce": .., "salt": .., "data": ..} with its three strings
\* (base64 symbols need no JSON escape).
NoFile == [kind |-> "none"]

Garbage == [kind |-> "text"]

EncryptedData(nonce, salt, data) ==
    [kind |-> "env", nonce |-> nonce, salt |-> salt, data |-> data]

\* Result<T, String>, and the third way a call can end: a panic.
Ok(v) == [tag |-> "Ok", val |-> v]

Err(msg) == [tag |-> "Err", msg |-> msg]

Panic == [tag |-> "Panic"]

\* The texts of the other errors the two operations return.
ErrText ==
    [read |-> "Error reading file", parse_file |-> "Error parsing file content",
     nonce |-> "Error decoding nonce", data |-> "Error decoding data",
     salt |-> "Error parsing salt", key |-> "Error deriving key",
     parse_db |-> "Error parsing database", write |-> "Error writing to file"]

ErrDecrypt == "Invalid passkey or corrupted database file"

\* ----------------------------------------------------------------- OsRng

\* Output number n of the generator, len bytes long.
Draw(n, len) ==
    [i \in 1..len |-> IF i = len THEN n % 256
                      ELSE IF i = len - 1 THEN (n \div 256) % 256 ELSE 0]

\* SaltString::generate(&mut OsRng): 16 random bytes as unpadded base64.
GenerateSalt(n) == B64EncodeNoPad(Draw(n, SaltLen))

\* A generator that is not asked: the buffer as it was created.
GenerateNonceZero(n) == Rep(0, NonceLen)

\* generate_nonce(): 12 random bytes.
GenerateNonce(n) == Draw(n, NonceLen)

\* -------------------------------------------------------- key derivation

\* SaltString::from_b64: 4 to 64 symbols of the alphabet, no padding.
SaltStringValid(salt_str) ==
    /\ Len(salt_str) >= MinSaltChars
    /\ Len(salt_str) <= MaxSaltChars
    /\ \A i \in 1..Len(salt_str) : salt_str[i] \in 0..63

\* A key that does not depend on the passkey.
DeriveKeyIgnoringPasskey(passkey, salt_str) ==
    IF ~SaltStringValid(salt_str) THEN Err(ErrText.salt)
    ELSE IF Len(salt_str) < MinArgonSalt THEN Err(ErrText.key)
    ELSE Ok(<<<<>>, salt_str>>)

\* derive_key_with_salt: Argon2 over the passkey and the salt string's bytes
\* (Argon2 refuses a salt of fewer than 8 bytes).
DeriveKeyWithSalt(passkey, salt_str) ==
    IF ~SaltStringValid(salt_str) THEN Err(ErrText.salt)
    ELSE IF Len(salt_str) < MinArgonSalt THEN Err(ErrText.key)
    ELSE Ok(<<passkey, salt_str>>)

\* ------------------------------------------------------------ AES-256-GCM

\* The bytes of the n-th ciphertext made: as long as the plaintext, then the tag.
CipherBytes(n, len) ==
    [i \in 1..(len + TagLen) |->
        IF i = len + 1 THEN n % 256 ELSE (37 * n + 11 * i) % 256]

\* The entries of the encryption relation for this key, nonce and plaintext.
AeadFind(table, key, nonce, pt) ==
    {k \in 1..Len(table) :
        table[k].key = key /\ table[k].nonce = nonce /\ table[k].pt = pt}

\* cipher.encrypt(nonce, plaintext): the relation afterwards and the ciphertext.
\* Encryption is a function: the same key, nonce and plaintext give the same bytes.
AeadEncrypt(table, key, nonce, pt) ==
    LET old == AeadFind(table, key, nonce, pt)
    IN  IF old # {}
        THEN [table |-> table, ct |-> table[CHOOSE k \in old : TRUE].ct]
        ELSE LET ct == CipherBytes(Len(table) + 1, Len(pt))
             IN  [table |-> Append(table, [key |-> key, nonce |-> nonce,
                                           pt |-> pt, ct |-> ct]),
                  ct |-> ct]

\* Decryption that checks no tag: the body of the ciphertext alone decides.
AeadDecryptNoTag(table, key, nonce, ct) ==
    LET body(c) == SubSeq(c, 1, Len(c) - TagLen)
        hit == {k \in 1..Len(table) :
                   /\ table[k].key = key
                   /\ Len(ct) >= TagLen
                   /\ body(table[k].ct) = body(ct)}
    IN  IF hit = {} THEN Err("aead::Error")
        ELSE Ok(table[CHOOSE k \in hit : TRUE].pt)

\* cipher.decrypt(nonce, ciphertext): the plaintext, or the one aead::Error.
AeadDecrypt(table, key, nonce, ct) ==
    LET hit == {k \in 1..Len(table) :
                   table[k].key = key /\ table[k].nonce = nonce /\ table[k].ct = ct}
    IN  IF hit = {} THEN Err("aead::Error")
        ELSE Ok(table[CHOOSE k \in hit : TRUE].pt)

\* -------------------------------------------------------------- envelope


\* The message of a failed decryption, told apart by what the relation holds.
DecryptFailureTelling(table, key, nonce, ct) ==
    IF \E k \in 1..Len(table) : table[k].key = key
    THEN "Corrupted database file" ELSE "Invalid passkey"

\* .map_err(|_| "Invalid passkey or corrupted database file".to_string())
DecryptFailure(table, key, nonce, ct) == ErrDecrypt

\* encrypt_and_save_database(database, filepath, passkey) up to the write
\* (lines 47-83), with n the number of generator outputs used so far and table
\* the encryption relation so far.  Gives the error met or the envelope built,
\* and the new relation and output count.
BuildEnvelope(database, passkey, n, table) ==
    LET json == ToJson(database)
        salt_string == GenerateSalt(n)
        key == DeriveKeyWithSalt(passkey, salt_string)
    IN  IF key.tag = "Err"
        THEN [out |-> key, env |-> NoFile, table |-> table, rng |-> n + 1]
        ELSE LET nonce == GenerateNonce(n + 1)
                 enc == AeadEncrypt(table, key.val, nonce, json)
             IN  [out |-> Ok(<<>>),
                  env |-> EncryptedData(B64Encode(nonce), salt_string, B64Encode(enc.ct)),
                  table |-> enc.table, rng |-> n + 2]

\* fs::write of the envelope built (lines 84-88), with wr how it ends: "ok",
\* "denied" (nothing written) or "partial" (the file truncated and not
\* completed).  Gives the result, whether and what the file now holds, the
\* envelope built, and the new relation and output count.
WriteEnvelope(built, wr) ==
    IF built.out.tag = "Err"
    THEN [out |-> built.out, write |-> FALSE, file |-> NoFile, env |-> NoFile,
          table |-> built.table, rng |-> built.rng]
    ELSE [out |-> IF wr = "ok" THEN Ok(<<>>) ELSE Err(ErrText.write),
          write |-> wr # "denied",
          file |-> IF wr = "ok" THEN built.env ELSE Garbage,
          env |-> built.env,
          table |-> built.table, rng |-> built.rng]

\* encrypt_and_save_database(database, filepath, passkey).
EncryptAndSave(database, passkey, n, table, wr) ==
    WriteEnvelope(BuildEnvelope(database, passkey, n, table), wr)

\* load_and_decrypt_database, lines 117-124, with plaintext what decrypt gave.
LoadDecrypted(table, key, nonce_bytes, ciphertext, plaintext) ==
    IF plaintext.tag = "Err"
    THEN Err(DecryptFailure(table, key, nonce_bytes, ciphertext))
    ELSE LET database == FromJson(plaintext.val)
         IN  IF ~database.ok THEN Err(ErrText.parse_db) ELSE Ok(database.val)

\* load_and_decrypt_database, lines 107-124, with key what derive_key_with_salt
\* gave.  Nonce::from_slice asserts that the slice is 12 bytes long.
LoadDecoded(table, key, nonce_bytes, ciphertext) ==
    IF key.tag = "Err" THEN key
    ELSE IF Len(nonce_bytes) # NonceLen THEN Panic
    ELSE LoadDecrypted(table, key.val, nonce_bytes, ciphertext,
                       AeadDecrypt(table, key.val, nonce_bytes, ciphertext))

\* A load that derives the key before it decodes the nonce and the data.
LoadDeriveFirst(content, passkey, table) ==
    IF content.kind = "none" THEN Err(ErrText.read)
    ELSE IF content.kind = "text" THEN Err(ErrText.parse_file)
    ELSE IF DeriveKeyWithSalt(passkey, content.salt).tag = "Err"
    THEN DeriveKeyWithSalt(passkey, content.salt)
    ELSE IF ~B64Valid(content.nonce) THEN Err(ErrText.nonce)
    ELSE IF ~B64Valid(content.data) THEN Err(ErrText.data)
    ELSE LoadDecoded(table, DeriveKeyWithSalt(passkey, content.salt),
                     B64Decode(content.nonce), B64Decode(content.data))

\* load_and_decrypt_database(filepath, passkey) on what the path holds.
LoadAndDecrypt(content, passkey, table) ==
    IF content.kind = "none" THEN Err(ErrText.read)
    ELSE IF content.kind = "text" THEN Err(ErrText.parse_file)
    ELSE IF ~B64Valid(content.nonce) THEN Err(ErrText.nonce)
    ELSE IF ~B64Valid(content.data) THEN Err(ErrText.data)
    ELSE LoadDecoded(table, DeriveKeyWithSalt(passkey, content.salt),
                     B64Decode(content.nonce), B64Decode(content.data))

\* ----------------------------------------------------------------- state

VARIABLES
    fs,      \* the file system: what each path holds
    aead,    \* the encryption relation: every (key, nonce, plaintext, ciphertext) made
    rng,     \* the number of generator outputs used
    seals,   \* every encrypt_and_save_database call so far that built an envelope
    res,     \* the last envelope operation and its result
    origin,  \* where the content of EnvPath comes from
    db,      \* a record store (a Database value) under test
    last,    \* the last operation that may change a store, with its arguments
    found,   \* the last lookup in db since that operation
    cli,     \* the sessions: each a struct CLI and the menu it is at
    ev       \* the last handler a session ran, with what it was given

envVars == <<fs, aead, rng, seals>>

ghostVars == <<res, origin>>

storeVars == <<db, last, found>>

cliVars == <<cli, ev>>

vars == <<fs, aead, rng, seals, res, origin, db, last, found, cli, ev>>

\* ---------------------------------------------------------------- inputs

HexDigits == <<"0", "1", "2", "3", "4", "5", "6", "7", "8", "9",
               "a", "b", "c", "d", "e", "f">>

\* The k-th id of the model: eight hexadecimal digits.
IdOf(k) == [i \in 1..IdLen |-> IF i = IdLen THEN HexDigits[(k % 16) + 1] ELSE "0"]

\* The ids generate_id returns in the model.
Ids == {IdOf(1), IdOf(2)}

PkA == <<"T", "r", "0", "u", "b", "4", "d", "o", "r", "&", "3", "x", "t", "r", "a", "!", "!">>

PkB == <<"W", "r", "0", "n", "g", "-", "p", "a", "s", "s", "p", "h", "r", "a", "s", "e">>

Passkeys == {PkA, PkB}

Paths == {"a.fp", "b.fp"}

EnvPath == "a.fp"

AccA == MkAccount(IdOf(1), <<"a", Q>>, None, <<BS, "p">>)

AccB == MkAccount(IdOf(2), <<"b">>, Some(<<>>), <<"p", "w">>)

AccC == MkAccount(IdOf(3), <<"c", BS>>, Some(<<"d", Q>>), <<Q>>)

\* The stores the envelope is exercised with: no account, and three with an
\* absent, an empty and a present description and quotes and backslashes in text.
EnvStores == {NewDatabase, MkDatabase(<<AccA, AccB, AccC>>)}

WriteOutcomes == {"ok", "denied", "partial"}

\* A salt and a nonce of another program's generator.
ForeignSalt == B64EncodeNoPad(Rep(255, SaltLen))

ForeignNonce == Rep(255, NonceLen)

\* Plaintexts that are not a serialized store.
ForeignTexts == {<<>>, <<"{">>, <<"[", "]">>}

\* File contents no seal of this program wrote: text that is no envelope, and
\* envelopes with a nonce or data that is not base64, a salt that is no salt
\* string or too short for Argon2, a nonce of 3 or of 15 bytes, data shorter
\* than a tag, and data of 16 bytes that no encryption produced.
RawFiles ==
    {Garbage,
     EncryptedData(<<BadSym, 0, 0, 0>>, ForeignSalt, <<>>),
     EncryptedData(B64Encode(ForeignNonce), ForeignSalt, <<0, 0, 0>>),
     EncryptedData(<<BadSym, 0, 0, 0>>, <<0, 0, 0>>, <<BadSym, 0, 0, 0>>),
     EncryptedData(B64Encode(ForeignNonce), <<0, 0, 0>>, <<>>),
     EncryptedData(B64Encode(ForeignNonce), <<0, 0, PadSym, PadSym>>, <<>>),
     EncryptedData(B64Encode(ForeignNonce), <<0, 0, 0, 0, 0>>, <<>>),
     EncryptedData(B64Encode(Rep(0, 3)), ForeignSalt, <<>>),
     EncryptedData(B64Encode(Rep(0, 15)), ForeignSalt, B64Encode(Rep(0, TagLen))),
     EncryptedData(B64Encode(ForeignNonce), ForeignSalt, B64Encode(Rep(0, 3))),
     EncryptedData(B64Encode(ForeignNonce), ForeignSalt, B64Encode(Rep(0, TagLen)))}

\* The values added (mod 256) to the byte a tamper changes.
TamperDeltas == {1, 255}

NoRes == [op |-> "none", passkey |-> <<>>, store |-> NewDatabase,
          out |-> Ok(<<>>), cause |-> "none"]

NoOrigin == [kind |-> "none", store |-> NewDatabase, passkey |-> <<>>]

\* Why an open of the file must fail, when there is exactly one reason: the
\* file is as sealed and the passkey is another, or the passkey is the seal's
\* and a byte of the nonce or of the ciphertext was changed.
CauseOf(o, passkey) ==
    IF o.kind = "sealed" /\ passkey # o.passkey THEN "wrongkey"
    ELSE IF o.kind = "tampered" /\ passkey = o.passkey THEN "tamper"
    ELSE "none"

NoOp == [op |-> "none", id |-> <<>>, u |-> <<>>, d |-> None, p |-> <<>>,
         out |-> FALSE, before |-> NewDatabase]

NoFind == [by |-> "none", id |-> <<>>, out |-> [some |-> FALSE], handle |-> [some |-> FALSE]]

NoEvent == [s |-> 0, op |-> "none", passkey |-> <<>>, outcome |-> "none"]

\* ------------------------------------------------- envelope specification

InitEnvelope ==
    /\ fs = [p \in Paths |-> NoFile]
    /\ aead = <<>>
    /\ rng = 0
    /\ seals = <<>>
    /\ res = NoRes
    /\ origin = NoOrigin
    /\ db = NewDatabase
    /\ last = NoOp
    /\ found = NoFind
    /\ cli = <<>>
    /\ ev = NoEvent

\* Has a seal of this run returned an error?  (The session ends on one: the
\* error goes up through every `?` to main, which exits.)
SealFailed == \E k \in 1..Len(seals) : seals[k].out.tag = "Err"

\* seal: encrypt_and_save_database(S, EnvPath, P).
SealFile(S, P, wr) ==
    /\ Len(seals) < MaxSeals
    /\ ~SealFailed
    /\ origin.kind \in {"none", "sealed"}
    /\ LET r == EncryptAndSave(S, P, rng, aead, wr)
       IN  /\ fs' = IF r.write THEN [fs EXCEPT ![EnvPath] = r.file] ELSE fs
           /\ aead' = r.table
           /\ rng' = r.rng
           /\ seals' = Append(seals, [store |-> S, passkey |-> P, path |-> EnvPath,
                                      env |-> r.env, out |-> r.out, by |-> 0])
           /\ res' = [op |-> "seal", passkey |-> P, store |-> S, out |-> r.out,
                      cause |-> "none"]
           /\ origin' = IF wr = "ok" THEN [kind |-> "sealed", store |-> S, passkey |-> P]
                        ELSE IF wr = "partial" THEN [NoOrigin EXCEPT !.kind = "raw"]
                        ELSE origin
    /\ UNCHANGED <<storeVars, cliVars>>

\* open: load_and_decrypt_database(EnvPath, P).
OpenFile(P) ==
    /\ res' = [op |-> "open", passkey |-> P, store |-> NewDatabase,
               out |-> LoadAndDecrypt(fs[EnvPath], P, aead),
               cause |-> CauseOf(origin, P)]
    /\ UNCHANGED <<envVars, origin, storeVars, cliVars>>

\* The positions of the bytes a tamper may change in a field of the file: of
\* the nonce the first, a middle one and the last; of the ciphertext the first
\* byte, a middle one, the last byte of the body, the first and the last of the
\* tag.
TamperPositions(field) ==
    IF fs[EnvPath].kind # "env" THEN {}
    ELSE IF field = "nonce"
    THEN LET len == Len(B64Decode(fs[EnvPath].nonce))
         IN  {1, len \div 2, len} \ {0}
    ELSE LET len == Len(B64Decode(fs[EnvPath].data))
         IN  {1, len \div 2, len - TagLen, len - TagLen + 1, len} \ {0}

\* The file with one byte of a field changed: the field decoded, the byte
\* replaced, the field encoded again.
Tampered(f, field, pos, delta) ==
    LET bytes == B64Decode(IF field = "nonce" THEN f.nonce ELSE f.data)
        changed == B64Encode([bytes EXCEPT ![pos] = (@ + delta) % 256])
    IN  IF field = "nonce" THEN [f EXCEPT !.nonce = changed]
        ELSE [f EXCEPT !.data = changed]

\* One byte of the stored nonce or of the stored ciphertext of a sealed file is
\* changed.
Tamper(field, pos, delta) ==
    /\ origin.kind = "sealed"
    /\ fs' = [fs EXCEPT ![EnvPath] = Tampered(fs[EnvPath], field, pos, delta)]
    /\ origin' = [origin EXCEPT !.kind = "tampered"]
    /\ res' = NoRes
    /\ UNCHANGED <<aead, rng, seals, storeVars, cliVars>>

\* Some other program wrote the file before this one first touches the path.
WriteRaw(content) ==
    /\ origin.kind = "none"
    /\ fs' = [fs EXCEPT ![EnvPath] = content]
    /\ origin' = [NoOrigin EXCEPT !.kind = "raw"]
    /\ res' = NoRes
    /\ UNCHANGED <<aead, rng, seals, storeVars, cliVars>>

\* Some other program that knows a passkey has encrypted, by the same scheme,
\* text that is no serialized store.
WriteForeign(pt, P) ==
    /\ origin.kind = "none"
    /\ LET key == DeriveKeyWithSalt(P, ForeignSalt)
           enc == AeadEncrypt(aead, key.val, ForeignNonce, pt)
       IN  /\ aead' = enc.table
           /\ fs' = [fs EXCEPT ![EnvPath] =
                        EncryptedData(B64Encode(ForeignNonce), ForeignSalt,
                                      B64Encode(enc.ct))]
    /\ origin' = [NoOrigin EXCEPT !.kind = "raw"]
    /\ res' = NoRes
    /\ UNCHANGED <<rng, seals, storeVars, cliVars>>

NextEnvelope ==
    \/ \E S \in EnvStores, P \in Passkeys, wr \in WriteOutcomes : SealFile(S, P, wr)
    \/ \E P \in Passkeys : OpenFile(P)
    \/ \E field \in {"nonce", "data"} :
           \E pos \in TamperPositions(field), delta \in TamperDeltas :
               Tamper(field, pos, delta)
    \/ \E content \in RawFiles : WriteRaw(content)
    \/ \E pt \in ForeignTexts, P \in Passkeys : WriteForeign(pt, P)

SpecEnvelope == InitEnvelope /\ [][NextEnvelope]_vars

\* ------------------------------------------------- claims on the envelope

BigStore == MkDatabase(<<AccA, AccB, AccC>>)

\* The envelope of the last seal that wrote its file.
LastSealed ==
    LET ok == {k \in 1..Len(seals) : seals[k].out.tag = "Ok"}
    IN  seals[CHOOSE k \in ok : \A m \in ok : m <= k].env

\* C1: opening the file a seal of store S under passkey P wrote, with the same
\* P, succeeds and returns a store equal to S (accounts in order, every field,
\* an absent description absent).
C1_RoundTrip ==
    (res.op = "open" /\ origin.kind = "sealed" /\ res.passkey = origin.passkey)
        => res.out = Ok(origin.store)

C1_Witness ==
    /\ res.op = "open" /\ origin.kind = "sealed" /\ res.passkey = origin.passkey
    /\ origin.store = BigStore
    /\ res.out.tag = "Ok"
    /\ res.out.val.accounts[1].description = None
    /\ res.out.val.accounts[2].description = Some(<<>>)

\* C2: opening the file sealed under P with another passkey fails with the
\* decryption error and returns no store.
C2_WrongKeyRejected ==
    (res.op = "open" /\ res.cause = "wrongkey") => res.out = Err(ErrDecrypt)

C2_Witness ==
    /\ res.op = "open" /\ res.cause = "wrongkey"
    /\ origin.store = BigStore /\ res.out.tag = "Err"

\* C3: after one byte of the stored ciphertext or of the stored nonce of a
\* sealed file is changed, opening with the seal's passkey fails with the
\* decryption error, and opening with any passkey returns no store.
C3_TamperDetected ==
    (res.op = "open" /\ origin.kind = "tampered")
        => /\ res.out.tag = "Err"
           /\ res.passkey = origin.passkey => res.out = Err(ErrDecrypt)

C3_Witness ==
    /\ res.op = "open" /\ res.cause = "tamper"
    /\ fs[EnvPath].nonce = LastSealed.nonce
    /\ fs[EnvPath].data # LastSealed.data
    /\ res.out.tag = "Err"

\* C4 (as claimed): no call ends in a panic; every open and every seal returns
\* a store, a unit or an error value.
C4_NeverPanics == res.out.tag \in {"Ok", "Err"}

\* C5: a failed decryption returns one and the same error whether the passkey
\* was wrong or a byte of the nonce or ciphertext was changed: the error of
\* this open equals the error of every open that differs in the cause alone.
C5_UndifferentiatedError ==
    /\ (res.op = "open" /\ res.cause = "tamper")
           => \A P \in Passkeys \ {origin.passkey} :
                  LoadAndDecrypt(LastSealed, P, aead) = res.out
    /\ (res.op = "open" /\ res.cause = "wrongkey")
           => \A field \in {"nonce", "data"} :
                  \A pos \in TamperPositions(field), delta \in TamperDeltas :
                      LoadAndDecrypt(Tampered(fs[EnvPath], field, pos, delta),
                                     origin.passkey, aead) = res.out

C5_Witness ==
    /\ res.op = "open" /\ res.cause = "tamper" /\ res.out.tag = "Err"
    /\ \E P \in Passkeys \ {origin.passkey} :
           LoadAndDecrypt(LastSealed, P, aead).tag = "Err"

\* C6: no two seals share a salt, a nonce or a ciphertext, and every file a
\* seal wrote still opens, under the seal's passkey, to the store sealed.
C6_FreshSaltAndNonce ==
    /\ \A i, j \in 1..Len(seals) :
           i < j => /\ seals[i].env.salt # seals[j].env.salt
                    /\ seals[i].env.nonce # seals[j].env.nonce
                    /\ seals[i].env.data # seals[j].env.data
    /\ \A i \in 1..Len(seals) :
           /\ Len(B64Decode(seals[i].env.nonce)) = NonceLen
           /\ (res.op = "seal" /\ seals[i].out.tag = "Ok")
                  => LoadAndDecrypt(seals[i].env, seals[i].passkey, aead)
                         = Ok(seals[i].store)

C6_Witness ==
    /\ Len(seals) = 2 /\ res.op = "seal"
    /\ seals[1].store = seals[2].store /\ seals[1].passkey = seals[2].passkey
    /\ seals[1].out.tag = "Ok" /\ seals[2].out.tag = "Ok"
    /\ seals[1].store = BigStore

\* ----------------------------------------------- record store operations

\* What generate_id can do: return one of the ids (nothing compares it with
\* the ids in use, and eight hexadecimal digits of a hash can repeat), or
\* panic in expect("Time went backwards") when the clock is before the epoch.
GenerateIdOutcomes == {Ok(id) : id \in Ids} \cup {Panic}

\* Account::new with the id generate_id returned.
AccountNew(id, username_or_email, description, password) ==
    MkAccount(id, username_or_email, description, password)

\* An add_account that puts the new account first.
AddAccountFirst(database, account) ==
    [database EXCEPT !.accounts = <<account>> \o @]

\* Database::add_account.
AddAccount(database, account) ==
    [database EXCEPT !.accounts = Append(@, account)]

\* Database::get_accounts.
GetAccounts(database) == database.accounts

\* Option<&Account>::None and Option<&mut Account>::None.
NoAccount == [some |-> FALSE, val |-> MkAccount(<<>>, <<>>, None, <<>>)]

NoHandle == [some |-> FALSE, val |-> 0]

\* iter().position(|acc| acc.get_id() == id): the first position, or 0 for None.
Position(database, id) ==
    LET hits == {i \in 1..Len(database.accounts) : database.accounts[i].id = id}
    IN  IF hits = {} THEN 0 ELSE CHOOSE i \in hits : \A j \in hits : i <= j

\* Database::get_account_by_id: the first account with the id.
GetAccountById(database, id) ==
    LET pos == Position(database, id)
    IN  IF pos = 0 THEN NoAccount ELSE Some(database.accounts[pos])

\* Database::get_account_by_id_mut: a handle (the position) on the first
\* account with the id.
GetAccountByIdMut(database, id) ==
    LET pos == Position(database, id)
    IN  IF pos = 0 THEN NoHandle ELSE Some(pos)

\* Account::set_username_or_email, set_description and set_password through
\* the handle.
SetUsernameOrEmail(database, pos, v) ==
    [database EXCEPT !.accounts[pos].username_or_email = v]

SetDescription(database, pos, v) ==
    [database EXCEPT !.accounts[pos].description = v]

SetPassword(database, pos, v) ==
    [database EXCEPT !.accounts[pos].password = v]

\* A removal that, on a miss, drops the last account.
RemoveAccountPop(database, id) ==
    LET pos == Position(database, id)
        n == Len(database.accounts)
    IN  IF pos # 0
        THEN [db |-> [database EXCEPT !.accounts = RemoveAt(@, pos)], ret |-> TRUE]
        ELSE [db |-> [database EXCEPT !.accounts = SubSeq(@, 1, n - 1)], ret |-> FALSE]

\* Database::remove_account: the store afterwards and the boolean returned.
RemoveAccount(database, id) ==
    LET pos == Position(database, id)
    IN  IF pos # 0
        THEN [db |-> [database EXCEPT !.accounts = RemoveAt(@, pos)], ret |-> TRUE]
        ELSE [db |-> database, ret |-> FALSE]

\* ------------------------------------------------- record store specification

StoreNames == {<<"u">>, <<"v">>}

StoreDescriptions == {None, Some(<<"d">>)}

StorePasswords == {<<"p">>, <<"q">>}

\* An operation on the store: its name, the id, the fields given, what it
\* returned and, for a removal, the store before it.
Op(op, id, u, d, p, out, before) ==
    [op |-> op, id |-> id, u |-> u, d |-> d, p |-> p, out |-> out, before |-> before]

InitStore ==
    /\ db = NewDatabase
    /\ last = NoOp
    /\ found = NoFind
    /\ fs = [p \in Paths |-> NoFile]
    /\ aead = <<>>
    /\ rng = 0
    /\ seals = <<>>
    /\ res = NoRes
    /\ origin = NoOrigin
    /\ cli = <<>>
    /\ ev = NoEvent

\* create: Account::new, then add_account.
Create(u, d, p, idOut) ==
    /\ Len(db.accounts) < MaxAccounts
    /\ IF idOut.tag = "Panic"
       THEN /\ db' = db
            /\ last' = Op("create", <<>>, u, d, p, "Panic", NewDatabase)
       ELSE /\ db' = AddAccount(db, AccountNew(idOut.val, u, d, p))
            /\ last' = Op("create", idOut.val, u, d, p, "Ok", NewDatabase)
    /\ found' = NoFind
    /\ UNCHANGED <<envVars, ghostVars, cliVars>>

\* update: a setter through the handle get_account_by_id_mut gives, if any.
Update(id, field, v) ==
    /\ LET h == GetAccountByIdMut(db, id)
       IN  /\ db' = IF ~h.some THEN db
                    ELSE IF field = "username_or_email" THEN SetUsernameOrEmail(db, h.val, v)
                    ELSE IF field = "description" THEN SetDescription(db, h.val, v)
                    ELSE SetPassword(db, h.val, v)
           /\ last' = Op("update", id, <<>>, None, <<>>, h.some, NewDatabase)
    /\ found' = NoFind
    /\ UNCHANGED <<envVars, ghostVars, cliVars>>

\* remove: remove_account(id).
Remove(id) ==
    /\ LET r == RemoveAccount(db, id)
       IN  /\ db' = r.db
           /\ last' = Op("remove", id, <<>>, None, <<>>, r.ret, db)
    /\ found' = NoFind
    /\ UNCHANGED <<envVars, ghostVars, cliVars>>

\* find: get_account_by_id(id), or get_account_by_id_mut(id) (by names which),
\* of the id the last operation was about.
Find(id, by) ==
    /\ id = last.id
    /\ found' = [by |-> by, id |-> id,
                 out |-> IF by = "get_account_by_id" THEN GetAccountById(db, id)
                         ELSE NoAccount,
                 handle |-> IF by = "get_account_by_id_mut" THEN GetAccountByIdMut(db, id)
                            ELSE NoHandle]
    /\ UNCHANGED <<db, last, envVars, ghostVars, cliVars>>

NextStore ==
    \/ \E u \in StoreNames, d \in StoreDescriptions, p \in StorePasswords,
          idOut \in GenerateIdOutcomes : Create(u, d, p, idOut)
    \/ \E id \in Ids, v \in StoreNames : Update(id, "username_or_email", v)
    \/ \E id \in Ids, v \in StoreDescriptions : Update(id, "description", v)
    \/ \E id \in Ids, v \in StorePasswords : Update(id, "password", v)
    \/ \E id \in Ids : Remove(id)
    \/ \E id \in Ids, by \in {"get_account_by_id", "get_account_by_id_mut"} :
           Find(id, by)

SpecStore == InitStore /\ [][NextStore]_vars

\* ----------------------------------------------- claims on the record store

\* C8 (as claimed): looking up the id a create returned gives an account with
\* exactly the username, description and password supplied.
C8_CreateThenFind ==
    (last.op = "create" /\ last.out = "Ok"
         /\ found.by = "get_account_by_id" /\ found.id = last.id)
        => /\ found.out.some
           /\ found.out.val.username_or_email = last.u
           /\ found.out.val.description = last.d
           /\ found.out.val.password = last.p

\* C9 (as claimed): after remove_account(id) returned true, get_account_by_id(id)
\* and get_account_by_id_mut(id) return none.
C9_RemoveThenFind ==
    (last.op = "remove" /\ last.out = TRUE /\ found.by # "none" /\ found.id = last.id)
        => ~found.out.some /\ ~found.handle.some

\* C10: remove_account(id) returns true iff an account with that id was in the
\* store, and when it returns false the store is as it was.
C10_RemoveOnMiss ==
    last.op = "remove"
        => /\ last.out = (\E i \in 1..Len(last.before.accounts) :
                              last.before.accounts[i].id = last.id)
           /\ last.out = FALSE => db = last.before

C10_Witness ==
    /\ last.op = "remove" /\ last.out = FALSE
    /\ Len(db.accounts) = 2
    /\ found.by # "none"

\* ------------------------------------------------------------ passwords

SpecialChars ==
    {"!", "@", "#", "$", "%", "^", "&", "*", "(", ")", "-", "_", "=", "+",
     "[", "]", "{", "}", "|", ";", ":", ",", ".", "<", ">", "?", "/"}

LowercaseChars ==
    {"a", "b", "c", "d", "e", "f", "g", "h", "i", "j", "k", "l", "m",
     "n", "o", "p", "q", "r", "s", "t", "u", "v", "w", "x", "y", "z"}

UppercaseChars ==
    {"A", "B", "C", "D", "E", "F", "G", "H", "I", "J", "K", "L", "M",
     "N", "O", "P", "Q", "R", "S", "T", "U", "V", "W", "X", "Y", "Z"}

Numbers == {"0", "1", "2", "3", "4", "5", "6", "7", "8", "9"}

\* Characters that take two bytes in UTF-8 (named by their code point).
TwoByteChars == {"U+00E9", "U+00DF"}

\* str::len: the length of a text in bytes.
RECURSIVE ByteLen(_)
ByteLen(s) ==
    IF s = <<>> THEN 0
    ELSE (IF Head(s) \in TwoByteChars THEN 2 ELSE 1) + ByteLen(Tail(s))

\* is_password_valid.
IsPasswordValid(password) ==
    IF ByteLen(password) < MinPasswordLen THEN FALSE
    ELSE LET has_lowercase == \E i \in 1..Len(password) : password[i] \in LowercaseChars
             has_uppercase == \E i \in 1..Len(password) : password[i] \in UppercaseChars
             has_number == \E i \in 1..Len(password) : password[i] \in Numbers
             has_special == \E i \in 1..Len(password) : password[i] \in SpecialChars
         IN  has_lowercase /\ has_uppercase /\ has_number /\ has_special

\* A generator that draws all twenty characters from the four classes
\* together and forces none.
GenerateUnforced(special, lower, upper, number, more, shuffle) ==
    LET password == <<more[1], more[2], more[3], more[4]>> \o more
    IN  [i \in 1..Len(password) |-> password[shuffle[i]]]

\* generate_random_password: one special, one lowercase, one uppercase
\* character and one digit, then the further characters drawn from all four
\* classes, the whole shuffled by the permutation drawn.
GenerateRandomPassword(special, lower, upper, number, more, shuffle) ==
    LET password == <<special, lower, upper, number>> \o more
    IN  [i \in 1..Len(password) |-> password[shuffle[i]]]

\* ------------------------------------------------ password specification

\* A text of n characters holding one character of each class named, `wide`
\* characters of two bytes, and for the rest a character of no class.
PasswordOf(n, classes, wide) ==
    LET chosen == (IF "lowercase" \in classes THEN <<"a">> ELSE <<>>)
                  \o (IF "uppercase" \in classes THEN <<"Z">> ELSE <<>>)
                  \o (IF "number" \in classes THEN <<"7">> ELSE <<>>)
                  \o (IF "special" \in classes THEN <<"/">> ELSE <<>>)
                  \o Rep("U+00E9", wide)
    IN  chosen \o Rep("~", n - Len(chosen))

\* The password the user typed, not yet looked at.  res holds the call: its
\* name, its argument and what it returned.
InitPassword ==
    /\ \E n \in (MinPasswordLen - 2)..MaxPasswordLen,
          classes \in SUBSET {"lowercase", "uppercase", "number", "special"},
          wide \in 0..1 :
           res = [op |-> "none", input |-> PasswordOf(n, classes, wide), out |-> <<>>]
    /\ origin = NoOrigin
    /\ db = NewDatabase
    /\ last = NoOp
    /\ found = NoFind
    /\ fs = [p \in Paths |-> NoFile]
    /\ aead = <<>>
    /\ rng = 0
    /\ seals = <<>>
    /\ cli = <<>>
    /\ ev = NoEvent

\* is_password_valid(password), on the text typed or on the text generated.
ValidatePassword ==
    /\ res.op # "is_password_valid"
    /\ \E password \in {IF res.op = "none" THEN res.input ELSE res.out} :
           res' = [op |-> "is_password_valid", input |-> password,
                   out |-> IsPasswordValid(password)]
    /\ UNCHANGED <<envVars, origin, storeVars, cliVars>>

\* generate_random_password(), the outcomes of thread_rng being the arguments.
GeneratePassword(special, lower, upper, number, more, shuffle) ==
    /\ res.op = "none"
    /\ res' = [op |-> "generate_random_password", input |-> <<>>,
               out |-> GenerateRandomPassword(special, lower, upper, number, more, shuffle)]
    /\ UNCHANGED <<envVars, origin, storeVars, cliVars>>

\* The characters drawn are the first and the last of each class; the sixteen
\* further characters are all of one class; the shuffle leaves the order,
\* reverses it or rotates it.
NextPassword ==
    \/ ValidatePassword
    \/ \E special \in {"!", "/"}, lower \in {"a", "z"}, upper \in {"A", "Z"},
          number \in {"0", "9"},
          more \in {Rep(c, GeneratedFill) : c \in {"?", "q", "Q", "5"}},
          shuffle \in {[i \in 1..(4 + GeneratedFill) |-> i],
                       [i \in 1..(4 + GeneratedFill) |-> 5 + GeneratedFill - i],
                       [i \in 1..(4 + GeneratedFill) |-> (i % (4 + GeneratedFill)) + 1]} :
           GeneratePassword(special, lower, upper, number, more, shuffle)

SpecPassword == InitPassword /\ [][NextPassword]_vars

\* --------------------------------------------- claims on the password policy

\* C13 (as claimed): is_password_valid(s) is true exactly when s has at least
\* 15 characters and a character of each of the four classes; a text of 14
\* characters is rejected.
C13_PolicyPredicate ==
    res.op = "is_password_valid"
        => (res.out <=> /\ Len(res.input) >= 15
                        /\ \E i \in 1..Len(res.input) : res.input[i] \in LowercaseChars
                        /\ \E i \in 1..Len(res.input) : res.input[i] \in UppercaseChars
                        /\ \E i \in 1..Len(res.input) : res.input[i] \in Numbers
                        /\ \E i \in 1..Len(res.input) : res.input[i] \in SpecialChars)

\* C14: every password generate_random_password returns has 20 characters and
\* is accepted by is_password_valid.
C14_GeneratedValid ==
    res.op = "generate_random_password"
        => (Len(res.out) = 20 /\ IsPasswordValid(res.out))

C14_Witness ==
    /\ res.op = "generate_random_password"
    /\ Cardinality({i \in 1..Len(res.out) : res.out[i] \in LowercaseChars}) = 1
    /\ res.out[1] \notin SpecialChars

\* -------------------------------------------------------------- sessions

\* Option<PathBuf> and Option<Database>.
NoPath == [some |-> FALSE, val |-> ""]

NoDatabase == [some |-> FALSE, val |-> NewDatabase]

\* CLI::new, and run at its first main-menu prompt.  pc is the place of the
\* session: at the "main", "db" (database) or "account" menu, or ended:
\* "exited" (run returned Ok), "failed" (an Err went up to main, which exits
\* with status 1) or "panicked".  account_id is the argument of account_menu;
\* session_passkey is the passkey of the create or open that loaded the
\* database (the program does not keep it).
NewCLI ==
    [pc |-> "main", current_database_path |-> NoPath, current_database |-> NoDatabase,
     account_id |-> <<>>, session_passkey |-> <<>>]

Menus == {"main", "db", "account"}

\* A handler of session s ran: which, the passkey it was given and how it ended.
Event(s, op, passkey, outcome) ==
    [s |-> s, op |-> op, passkey |-> passkey, outcome |-> outcome]

\* PathBuf::set_extension("fp") on the name typed.
SetExtension(db_name) == db_name \o ".fp"

\* str::to_lowercase on an answer to a y/n prompt.
ToLowercase(answer) ==
    IF answer = "Y" THEN "y" ELSE IF answer = "N" THEN "n" ELSE answer

\* run, lines 72-75: after a main-menu handler returned Ok the database menu
\* is entered if a database is loaded.
AfterMainChoice(c) ==
    [c EXCEPT !.pc = IF c.current_database.some THEN "db" ELSE "main"]

\* account_menu, lines 273-283: each turn of its loop looks the account up and
\* returns to the database menu if it is gone.
AfterAccountChoice(c) ==
    [c EXCEPT !.pc = IF GetAccountById(c.current_database.val, c.account_id).some
                     THEN "account" ELSE "db"]

\* The session ends: "failed" when an Err goes up through every `?` to main,
\* "panicked" when a panic unwinds it.
Ended(c, how) == [c EXCEPT !.pc = how]

\* ------------------------------------------------------- session inputs

DbNames == {"a", "b"}

\* What is typed at a passkey prompt: a passkey, or nothing.
TypedPasskeys == Passkeys \cup {<<>>}

\* What is typed at a password prompt.
PwTyped == <<"A", "b", "c", "d", "e", "f", "g", "h", "i", "j", "k", "l", "m", "1", "!">>

TypedPasswords == {PwTyped, <<"P", "w", "1", "!">>}

\* The passwords generate_random_password returns in the sessions.
PwGenerated ==
    GenerateRandomPassword("!", "a", "A", "0", Rep("x", GeneratedFill),
                           [i \in 1..(4 + GeneratedFill) |-> 5 + GeneratedFill - i])

GeneratedPasswords == {PwGenerated}

TypedUsernames == {<<>>, <<"w">>}

TypedDescriptions == {<<>>, <<"e">>}

\* Ids typed at an id prompt: the ids of the model and one no account has.
TypedIds == Ids \cup {<<"x">>}

YesNo == {"y", "n"}

PasswordChoices == {"1", "2", "3"}

ClipboardOutcomes == {"ok", "error"}

\* The store an earlier run of the program left in EnvPath, sealed under PkA.
EarlierStore == MkDatabase(<<MkAccount(IdOf(1), <<"u">>, Some(<<"d">>), PwTyped)>>)

EarlierSeal == EncryptAndSave(EarlierStore, PkA, 0, <<>>, "ok")

\* ------------------------------------------------- session specification

\* Has session s made fewer encrypt_and_save_database calls than the bound?
CanSeal(s) == Cardinality({k \in 1..Len(seals) : seals[k].by = s}) < MaxSessionSeals

\* A handler of session s ends without a call of encrypt_and_save_database:
\* the session is then c.
Stay(s, c, op, passkey, outcome) ==
    /\ cli' = [cli EXCEPT ![s] = c]
    /\ ev' = Event(s, op, passkey, outcome)
    /\ UNCHANGED envVars

\* A handler that seals the store as it was before its change.
SaveBeforeChange(s, op, database, path, passkey, done, undone) ==
    \E built \in {BuildEnvelope(cli[s].current_database.val, passkey, rng, aead)} :
    \E wr \in WriteOutcomes :
    \E r \in {WriteEnvelope(built, wr)} :
        /\ fs' = IF r.write THEN [fs EXCEPT ![path] = r.file] ELSE fs
        /\ aead' = r.table
        /\ rng' = r.rng
        /\ seals' = Append(seals, [store |-> cli[s].current_database.val,
                                   passkey |-> passkey, path |-> path,
                                   env |-> r.env, out |-> r.out, by |-> s])
        /\ cli' = [cli EXCEPT ![s] = IF r.out.tag = "Ok" THEN done ELSE Ended(undone, "failed")]
        /\ ev' = Event(s, op, passkey, IF r.out.tag = "Ok" THEN "saved" ELSE "failed")

\* A handler that seals under a passkey of its own, not the one typed.
SaveRekeyed(s, op, database, path, passkey, done, undone) ==
    \E built \in {BuildEnvelope(database, PkB, rng, aead)} :
    \E wr \in WriteOutcomes :
    \E r \in {WriteEnvelope(built, wr)} :
        /\ fs' = IF r.write THEN [fs EXCEPT ![path] = r.file] ELSE fs
        /\ aead' = r.table
        /\ rng' = r.rng
        /\ seals' = Append(seals, [store |-> database, passkey |-> PkB, path |-> path,
                                   env |-> r.env, out |-> r.out, by |-> s])
        /\ cli' = [cli EXCEPT ![s] = IF r.out.tag = "Ok" THEN done ELSE Ended(undone, "failed")]
        /\ ev' = Event(s, op, passkey, IF r.out.tag = "Ok" THEN "saved" ELSE "failed")

\* A handler that seals the accounts the file holds followed by the accounts
\* of its store that the file does not hold.
SaveMerged(s, op, database, path, passkey, done, undone) ==
    \E held \in {LoadAndDecrypt(fs[path], passkey, aead)} :
    \E merged \in {IF held.tag # "Ok" THEN database
                   ELSE MkDatabase(held.val.accounts
                                   \o SelectSeq(database.accounts,
                                                LAMBDA a : \A i \in 1..Len(held.val.accounts) :
                                                               held.val.accounts[i] # a))} :
    \E built \in {BuildEnvelope(merged, passkey, rng, aead)} :
    \E wr \in WriteOutcomes :
    \E r \in {WriteEnvelope(built, wr)} :
        /\ fs' = IF r.write THEN [fs EXCEPT ![path] = r.file] ELSE fs
        /\ aead' = r.table
        /\ rng' = r.rng
        /\ seals' = Append(seals, [store |-> merged, passkey |-> passkey, path |-> path,
                                   env |-> r.env, out |-> r.out, by |-> s])
        /\ cli' = [cli EXCEPT ![s] = IF r.out.tag = "Ok" THEN done ELSE Ended(undone, "failed")]
        /\ ev' = Event(s, op, passkey, IF r.out.tag = "Ok" THEN "saved" ELSE "failed")

\* A handler of session s ends with encrypt_and_save_database(database, path,
\* passkey)?: the session is then done if the call returned Ok, and has failed
\* out of undone if it returned Err.
Save(s, op, database, path, passkey, done, undone) ==
    \E built \in {BuildEnvelope(database, passkey, rng, aead)} :
    \E wr \in WriteOutcomes :
    \E r \in {WriteEnvelope(built, wr)} :
        /\ fs' = IF r.write THEN [fs EXCEPT ![path] = r.file] ELSE fs
        /\ aead' = r.table
        /\ rng' = r.rng
        /\ seals' = Append(seals, [store |-> database, passkey |-> passkey, path |-> path,
                                   env |-> r.env, out |-> r.out, by |-> s])
        /\ cli' = [cli EXCEPT ![s] = IF r.out.tag = "Ok" THEN done ELSE Ended(undone, "failed")]
        /\ ev' = Event(s, op, passkey, IF r.out.tag = "Ok" THEN "saved" ELSE "failed")

\* A passkey check that lets every passkey through.
VerifySkipped(c, passkey) == Ok(c.current_database.val)

\* load_and_decrypt_database(path, &passkey) on the current path.
Verify(c, passkey) == LoadAndDecrypt(fs[c.current_database_path.val], passkey, aead)

\* The sessions start on a file system that is empty or holds the store an
\* earlier run left.
InitSessions(sessions) ==
    /\ \E earlier \in BOOLEAN :
           IF earlier
           THEN /\ fs = [p \in Paths |-> IF p = EnvPath THEN EarlierSeal.file ELSE NoFile]
                /\ aead = EarlierSeal.table
                /\ rng = EarlierSeal.rng
                /\ seals = <<[store |-> EarlierStore, passkey |-> PkA, path |-> EnvPath,
                              env |-> EarlierSeal.env, out |-> EarlierSeal.out, by |-> 0]>>
           ELSE /\ fs = [p \in Paths |-> NoFile]
                /\ aead = <<>>
                /\ rng = 0
                /\ seals = <<>>
    /\ cli = [s \in sessions |-> NewCLI]
    /\ ev = NoEvent
    /\ res = NoRes
    /\ origin = NoOrigin
    /\ db = NewDatabase
    /\ last = NoOp
    /\ found = NoFind

Init == InitSessions({1})

\* Main menu, choice 1: create_new_database, with passkey what
\* prompt_for_valid_passkey returns (it asks again until a valid passkey is
\* typed twice).
CreateNewDatabase(s, db_name, passkey) ==
    /\ cli[s].pc = "main"
    /\ LET c == cli[s]
           filepath == SetExtension(db_name)
           database == NewDatabase
       IN  IF fs[filepath] # NoFile
           THEN Stay(s, AfterMainChoice(c), "create_new_database", <<>>, "exists")
           ELSE /\ passkey # <<>>
                /\ IsPasswordValid(passkey)
                /\ CanSeal(s)
                /\ Save(s, "create_new_database", database, filepath, passkey,
                        AfterMainChoice([c EXCEPT !.current_database_path = Some(filepath),
                                                  !.current_database = Some(database),
                                                  !.session_passkey = passkey]),
                        c)
    /\ UNCHANGED <<ghostVars, storeVars>>

\* Main menu, choice 2: open_existing_database.
OpenExistingDatabase(s, filepath, passkey) ==
    /\ cli[s].pc = "main"
    /\ LET c == cli[s]
           op == "open_existing_database"
       IN  IF fs[filepath] = NoFile
           THEN Stay(s, AfterMainChoice(c), op, <<>>, "not_found")
           ELSE IF passkey = <<>>
           THEN Stay(s, AfterMainChoice(c), op, passkey, "empty_passkey")
           ELSE \E r \in {LoadAndDecrypt(fs[filepath], passkey, aead)} :
                    IF r.tag = "Ok"
                    THEN Stay(s, AfterMainChoice(
                                     [c EXCEPT !.current_database_path = Some(filepath),
                                               !.current_database = Some(r.val),
                                               !.session_passkey = passkey]),
                              op, passkey, "opened")
                    ELSE IF r.tag = "Panic"
                    THEN Stay(s, Ended(c, "panicked"), op, passkey, "panicked")
                    ELSE Stay(s, AfterMainChoice(c), op, passkey, "refused")
    /\ UNCHANGED <<ghostVars, storeVars>>

\* Main menu, choice 3: run returns Ok.
Exit(s) ==
    /\ cli[s].pc = "main"
    /\ Stay(s, [cli[s] EXCEPT !.pc = "exited"], "exit", <<>>, "exited")
    /\ UNCHANGED <<ghostVars, storeVars>>

\* Database menu, choice 1: list_accounts.
ListAccounts(s) ==
    /\ cli[s].pc = "db"
    /\ Stay(s, cli[s], "list_accounts", <<>>,
            IF GetAccounts(cli[s].current_database.val) = <<>> THEN "empty" ELSE "listed")
    /\ UNCHANGED <<ghostVars, storeVars>>

\* Database menu, choice 2: view_edit_account, which enters account_menu for
\* the id typed if an account has it.
ViewEditAccount(s, account_id) ==
    /\ cli[s].pc = "db"
    /\ LET c == cli[s]
           op == "view_edit_account"
       IN  IF GetAccounts(c.current_database.val) = <<>>
           THEN Stay(s, c, op, <<>>, "empty")
           ELSE IF GetAccountById(c.current_database.val, account_id).some
           THEN Stay(s, AfterAccountChoice([c EXCEPT !.account_id = account_id]),
                     op, <<>>, "account_menu")
           ELSE Stay(s, c, op, <<>>, "not_found")
    /\ UNCHANGED <<ghostVars, storeVars>>

\* Database menu, choice 5: database_menu returns to run.
ReturnToMainMenu(s) ==
    /\ cli[s].pc = "db"
    /\ Stay(s, [cli[s] EXCEPT !.pc = "main"], "database_menu", <<>>, "returned")
    /\ UNCHANGED <<ghostVars, storeVars>>

\* Account menu, choice 4: account_menu returns to database_menu.
ReturnToDatabaseMenu(s) ==
    /\ cli[s].pc = "account"
    /\ Stay(s, [cli[s] EXCEPT !.pc = "db"], "account_menu", <<>>, "returned")
    /\ UNCHANGED <<ghostVars, storeVars>>

\* The passwords a "new password" step can end with: choice "1" asks until
\* is_password_valid accepts what is typed, choice "2" generates one; in
\* add_account any other choice generates one too.
ChosenPasswords(choice, otherwise) ==
    IF choice = "1" THEN {pwd \in TypedPasswords : IsPasswordValid(pwd)}
    ELSE IF choice = "2" THEN GeneratedPasswords
    ELSE otherwise

\* Database menu, choice 3: add_account.
CliAddAccount(s, passkey) ==
    /\ cli[s].pc = "db"
    /\ CanSeal(s)
    /\ LET c == cli[s]
           op == "add_account"
           path == c.current_database_path.val
       IN  \E username \in TypedUsernames :
           IF username = <<>>
           THEN Stay(s, c, op, <<>>, "empty_username")
           ELSE IF passkey = <<>>
           THEN Stay(s, c, op, passkey, "empty_passkey")
           ELSE \E v \in {Verify(c, passkey)} :
                IF v.tag = "Panic" THEN Stay(s, Ended(c, "panicked"), op, passkey, "panicked")
                ELSE IF v.tag = "Err" THEN Stay(s, c, op, passkey, "refused")
                ELSE \E typed \in TypedDescriptions, password_choice \in PasswordChoices :
                     \E password \in ChosenPasswords(password_choice, GeneratedPasswords) :
                     \E idOut \in GenerateIdOutcomes :
                     LET description == IF typed = <<>> THEN None ELSE Some(typed)
                     IN  IF idOut.tag = "Panic"
                         THEN Stay(s, Ended(c, "panicked"), op, passkey, "panicked")
                         ELSE LET account == AccountNew(idOut.val, username, description,
                                                        password)
                                  database == AddAccount(c.current_database.val, account)
                                  added == [c EXCEPT !.current_database = Some(database)]
                              IN  Save(s, op, database, path, passkey, added, added)
    /\ UNCHANGED <<ghostVars, storeVars>>

\* Database menu, choice 4: delete_account.
DeleteAccount(s, passkey) ==
    /\ cli[s].pc = "db"
    /\ CanSeal(s)
    /\ LET c == cli[s]
           op == "delete_account"
           path == c.current_database_path.val
       IN  IF GetAccounts(c.current_database.val) = <<>>
           THEN Stay(s, c, op, <<>>, "empty")
           ELSE \E account_id \in TypedIds :
                IF ~GetAccountById(c.current_database.val, account_id).some
                THEN Stay(s, c, op, <<>>, "not_found")
                ELSE IF passkey = <<>>
                THEN Stay(s, c, op, passkey, "empty_passkey")
                ELSE \E v \in {Verify(c, passkey)} :
                     IF v.tag = "Panic" THEN Stay(s, Ended(c, "panicked"), op, passkey, "panicked")
                     ELSE IF v.tag = "Err" THEN Stay(s, c, op, passkey, "refused")
                     ELSE \E confirm \in YesNo :
                          IF ToLowercase(confirm) # "y"
                          THEN Stay(s, c, op, passkey, "cancelled")
                          ELSE \E r \in {RemoveAccount(c.current_database.val, account_id)} :
                               IF ~r.ret
                               THEN Stay(s, c, op, passkey, "not_found")
                               ELSE LET removed == [c EXCEPT !.current_database = Some(r.db)]
                                    IN  Save(s, op, r.db, path, passkey, removed, removed)
    /\ UNCHANGED <<ghostVars, storeVars>>

\* An edit that takes an empty description input for "no description".
EditedClearing(database, handle, new_username, new_desc, keep_desc, edit_password, password_action, new_password) ==
    LET named == IF new_username # <<>>
                 THEN SetUsernameOrEmail(database, handle, new_username)
                 ELSE database
        described == SetDescription(named, handle,
                                    IF new_desc # <<>> THEN Some(new_desc) ELSE None)
    IN  IF ToLowercase(edit_password) = "y" /\ password_action \in {"1", "2"}
        THEN SetPassword(described, handle, new_password)
        ELSE described

\* edit_account, lines 336-388: the store after the prompts, given the handle
\* on the account and the answers (keep_desc, password_action and new_password
\* count only when their prompt is reached).
EditedDatabase(database, handle, new_username, new_desc, keep_desc, edit_password, password_action, new_password) ==
    LET named == IF new_username # <<>>
                 THEN SetUsernameOrEmail(database, handle, new_username)
                 ELSE database
        description == named.accounts[handle].description
        current_desc == IF description.some THEN description.val ELSE <<>>
        described == IF new_desc # <<>>
                     THEN SetDescription(named, handle, Some(new_desc))
                     ELSE IF current_desc # <<>> /\ ToLowercase(keep_desc) = "n"
                     THEN SetDescription(named, handle, None)
                     ELSE named
    IN  IF ToLowercase(edit_password) = "y" /\ password_action \in {"1", "2"}
        THEN SetPassword(described, handle, new_password)
        ELSE described

\* The answers to a prompt that is shown only when asked holds.
Answers(asked, answers) == IF asked THEN answers ELSE {"-"}

\* Account menu, choice 1: edit_account.  last records the answers to its
\* prompts and the store before them.
EditAccount(s, passkey) ==
    /\ cli[s].pc = "account"
    /\ CanSeal(s)
    /\ LET c == cli[s]
           op == "edit_account"
           path == c.current_database_path.val
           database == c.current_database.val
       IN  IF passkey = <<>>
           THEN Stay(s, AfterAccountChoice(c), op, passkey, "empty_passkey") /\ last' = last
           ELSE \E v \in {Verify(c, passkey)} :
                IF v.tag = "Panic"
                THEN Stay(s, Ended(c, "panicked"), op, passkey, "panicked") /\ last' = last
                ELSE IF v.tag = "Err"
                THEN Stay(s, AfterAccountChoice(c), op, passkey, "refused") /\ last' = last
                ELSE \E h \in {GetAccountByIdMut(database, c.account_id)} :
                     IF ~h.some
                     THEN Stay(s, AfterAccountChoice(c), op, passkey, "not_found")
                          /\ last' = last
                     ELSE \E new_username \in TypedUsernames, new_desc \in TypedDescriptions :
                          \E keep_desc \in
                                 Answers(/\ new_desc = <<>>
                                         /\ database.accounts[h.val].description.some
                                         /\ database.accounts[h.val].description.val # <<>>,
                                         YesNo) :
                          \E edit_password \in YesNo :
                          \E password_action \in
                                 Answers(ToLowercase(edit_password) = "y", PasswordChoices) :
                          \E new_password \in ChosenPasswords(password_action, {<<>>}) :
                          LET edited == EditedDatabase(database, h.val, new_username, new_desc,
                                                       keep_desc, edit_password,
                                                       password_action, new_password)
                              after == [c EXCEPT !.current_database = Some(edited)]
                          IN  /\ Save(s, op, edited, path, passkey, AfterAccountChoice(after),
                                      after)
                              /\ last' = Op(op, c.account_id, new_username, new_desc,
                                            new_password,
                                            <<keep_desc, edit_password, password_action>>,
                                            database)
    /\ UNCHANGED <<ghostVars, db, found>>

\* Account menu, choice 2: copy_password.
CopyPassword(s, passkey) ==
    /\ cli[s].pc = "account"
    /\ LET c == cli[s]
           op == "copy_password"
       IN  IF passkey = <<>>
           THEN Stay(s, AfterAccountChoice(c), op, passkey, "empty_passkey")
           ELSE \E v \in {Verify(c, passkey)} :
                IF v.tag = "Panic" THEN Stay(s, Ended(c, "panicked"), op, passkey, "panicked")
                ELSE IF v.tag = "Err"
                THEN Stay(s, AfterAccountChoice(c), op, passkey, "refused")
                ELSE IF ~GetAccountById(c.current_database.val, c.account_id).some
                THEN Stay(s, AfterAccountChoice(c), op, passkey, "not_found")
                ELSE \E clip \in ClipboardOutcomes :
                     IF clip = "ok"
                     THEN Stay(s, AfterAccountChoice(c), op, passkey, "copied")
                     ELSE Stay(s, Ended(c, "failed"), op, passkey, "failed")
    /\ UNCHANGED <<ghostVars, storeVars>>

\* Account menu, choice 3: generate_new_password.
GenerateNewPassword(s, passkey) ==
    /\ cli[s].pc = "account"
    /\ CanSeal(s)
    /\ LET c == cli[s]
           op == "generate_new_password"
           path == c.current_database_path.val
           database == c.current_database.val
       IN  IF passkey = <<>>
           THEN Stay(s, AfterAccountChoice(c), op, passkey, "empty_passkey")
           ELSE \E v \in {Verify(c, passkey)} :
                IF v.tag = "Panic" THEN Stay(s, Ended(c, "panicked"), op, passkey, "panicked")
                ELSE IF v.tag = "Err"
                THEN Stay(s, AfterAccountChoice(c), op, passkey, "refused")
                ELSE \E h \in {GetAccountByIdMut(database, c.account_id)} :
                     IF ~h.some
                     THEN Stay(s, AfterAccountChoice(c), op, passkey, "not_found")
                     ELSE \E new_password \in GeneratedPasswords, confirm \in YesNo :
                          IF ToLowercase(confirm) # "y"
                          THEN Stay(s, AfterAccountChoice(c), op, passkey, "cancelled")
                          ELSE LET changed == SetPassword(database, h.val, new_password)
                                   after == [c EXCEPT !.current_database = Some(changed)]
                               IN  Save(s, op, changed, path, passkey,
                                        AfterAccountChoice(after), after)
    /\ UNCHANGED <<ghostVars, storeVars>>

Next ==
    \/ \E s \in DOMAIN cli, db_name \in DbNames, passkey \in TypedPasskeys :
           CreateNewDatabase(s, db_name, passkey)
    \/ \E s \in DOMAIN cli, filepath \in Paths, passkey \in TypedPasskeys :
           OpenExistingDatabase(s, filepath, passkey)
    \/ \E s \in DOMAIN cli : Exit(s)
    \/ \E s \in DOMAIN cli : ListAccounts(s)
    \/ \E s \in DOMAIN cli, account_id \in TypedIds : ViewEditAccount(s, account_id)
    \/ \E s \in DOMAIN cli, passkey \in TypedPasskeys : CliAddAccount(s, passkey)
    \/ \E s \in DOMAIN cli, passkey \in TypedPasskeys : DeleteAccount(s, passkey)
    \/ \E s \in DOMAIN cli : ReturnToMainMenu(s)
    \/ \E s \in DOMAIN cli, passkey \in TypedPasskeys : EditAccount(s, passkey)
    \/ \E s \in DOMAIN cli, passkey \in TypedPasskeys : CopyPassword(s, passkey)
    \/ \E s \in DOMAIN cli, passkey \in TypedPasskeys : GenerateNewPassword(s, passkey)
    \/ \E s \in DOMAIN cli : ReturnToDatabaseMenu(s)

Spec == Init /\ [][Next]_vars

\* ------------------------------------- two sessions on one store file

\* Two runs of the program on the file an earlier run left.
InitConc == InitSessions({1, 2}) /\ fs[EnvPath] # NoFile

\* Both users open the file, enter the menu of its account and leave it, and
\* delete accounts; the second has new passwords generated.
NextConc ==
    \/ \E s \in DOMAIN cli, passkey \in Passkeys : OpenExistingDatabase(s, EnvPath, passkey)
    \/ \E s \in DOMAIN cli : DeleteAccount(s, PkA)
    \/ \E s \in DOMAIN cli : ViewEditAccount(s, IdOf(1))
    \/ \E s \in DOMAIN cli : ReturnToDatabaseMenu(s)
    \/ GenerateNewPassword(2, PkA)

SpecConc == InitConc /\ [][NextConc]_vars

\* --------------------------------------------------- claims on the sessions

C18_PasskeyBeforeMutation ==
    [][(/\ ev'.op \in {"add_account", "edit_account", "generate_new_password",
                       "delete_account", "copy_password"}
        /\ \/ cli'[ev'.s].current_database # cli[ev'.s].current_database
           \/ fs' # fs
           \/ ev'.outcome = "copied")
           => /\ ev'.passkey # <<>>
              /\ LoadAndDecrypt(fs[cli[ev'.s].current_database_path.val],
                                ev'.passkey, aead).tag = "Ok"]_vars

C18_Witness ==
    /\ ev.op = "delete_account" /\ ev.outcome = "saved"
    /\ ev.passkey = cli[ev.s].session_passkey
    /\ cli[ev.s].current_database.val = NewDatabase
    /\ seals[1].store = EarlierStore
    /\ Verify(cli[ev.s], PkB).tag = "Err"

\* C19 (as claimed): a session is at the database menu right after main-menu
\* choice 1 or 2 only if that choice created or opened a database.
C19_FailedChoiceStaysAtMain ==
    \A s \in DOMAIN cli :
        (/\ ev.s = s
         /\ ev.op \in {"create_new_database", "open_existing_database"}
         /\ cli[s].pc = "db")
            => ev.outcome \in {"saved", "opened"}

\* C20: on every step that seals, the passkey of the seal is the passkey of
\* the first seal of that path (the one that created the file); a seal of a
\* file that exists is made under a passkey that opens the file as it is
\* before the step; and a file the step wrote opens under no other passkey
\* than the one it was created with, and under that one if the seal succeeded.
C20_PasskeyNeverChanges ==
    [][seals' # seals
           => LET sealed == seals'[Len(seals')]
                  first == CHOOSE k \in 1..Len(seals') :
                               /\ seals'[k].path = sealed.path
                               /\ \A j \in 1..(k - 1) : seals'[j].path # sealed.path
                  created == seals'[first].passkey
              IN  /\ sealed.passkey = created
                  /\ first # Len(seals')
                         => LoadAndDecrypt(fs[sealed.path], sealed.passkey, aead).tag = "Ok"
                  /\ fs' # fs
                         => \A P \in Passkeys :
                            \A opened \in {LoadAndDecrypt(fs'[sealed.path], P, aead').tag = "Ok"} :
                                /\ opened => P = created
                                /\ (P = created /\ sealed.out.tag = "Ok") => opened]_vars

C20_Witness ==
    /\ Len(seals) = 2
    /\ seals[1].path = seals[2].path
    /\ seals[2].by # 0 /\ seals[2].out.tag = "Ok"
    /\ seals[2].store # seals[1].store
    /\ LoadAndDecrypt(fs[seals[2].path], seals[1].passkey, aead) = Ok(seals[2].store)
    /\ LoadAndDecrypt(fs[seals[2].path], PkB, aead).tag = "Err"

C16_FormatErrorsFirst ==
    (\/ fs[EnvPath].kind = "text"
     \/ /\ fs[EnvPath].kind = "env"
        /\ ~B64Valid(fs[EnvPath].nonce) \/ ~B64Valid(fs[EnvPath].data))
        => /\ \A P \in Passkeys :
                  LoadAndDecrypt(fs[EnvPath], P, aead)
                      \in {Err(ErrText.parse_file), Err(ErrText.nonce), Err(ErrText.data)}
           /\ \A P, P2 \in Passkeys :
                  LoadAndDecrypt(fs[EnvPath], P, aead) = LoadAndDecrypt(fs[EnvPath], P2, aead)
           /\ res.op = "open" /\ res.out.tag = "Err" /\ res.out # Err(ErrText.read)
                  => res.out = LoadAndDecrypt(fs[EnvPath], res.passkey, aead)

C16_Witness ==
    /\ res.op = "open"
    /\ res.out = Err(ErrText.nonce)
    /\ fs[EnvPath].kind = "env"
    /\ ~B64Valid(fs[EnvPath].nonce)
    /\ ~SaltStringValid(fs[EnvPath].salt)

\* ------------------------------------- further claims on the record store

\* C11 (as claimed): in every store reached by create, update and remove, no
\* two accounts have the same id.
C11_IdUniqueness ==
    \A i, j \in 1..Len(db.accounts) :
        i # j => db.accounts[i].id # db.accounts[j].id

====
